---- MODULE Spec2Model ----
(***************************************************************************)
(* A model of the sparse merkle tree library: TreeKey bit operations       *)
(* (src/src/key.rs), the structured MerkleProof walk, its compiler and the *)
(* CompiledMerkleProof stack machine (src/src/merkle_proof.rs).  The tree  *)
(* itself (update, get, merkle_proof), hash_leaf and merge live in files   *)
(* that are not part of src/ and are modelled from spec.md sections 4.3,   *)
(* 4.4 and 4.5.                                                            *)
(*                                                                         *)
(* Digests.  An H256 is an array of DIGEST_LEN cells.  The hash is modelled*)
(* as a collision-free function: the digest of a preimage is the preimage's*)
(* term in prefix notation (a tag, then the operands), padded with zero    *)
(* cells.  Every non-zero digest ends in a non-zero cell, so padding is    *)
(* removed without ambiguity and two different preimages never share a     *)
(* digest.  Inputs whose terms do not fit DIGEST_LEN cells are excluded by *)
(* the guards of the actions.                                              *)
(***************************************************************************)
EXTENDS Integers, Sequences, FiniteSets, TLC

\* ------------------------------------------------------------------ bounds
\* Width of a key in bytes (TreeKey<N>); the tests use N = 32.
N == 2
\* Values are 0..MaxVal, 0 being the zero sentinel.
MaxVal == 2
\* The trees that proofs are made for hold the values 0..MaxProofVal.
MaxProofVal == 1
\* Longest list of keys handed to merkle_proof.
MaxQuery == 3

\* --------------------------------------------------------------- constants
BYTE_SIZE == 8
DIGEST_LEN == 32
OP_L == 76
OP_P == 80
OP_H == 72
HEIGHT_BYTES == 8

\* ------------------------------------------------------------ src/key.rs
max_index == N - 1

TreeKey_zero == [i \in 1..N |-> 0]

\* get_bit computes max_index - i / BYTE_SIZE in usize: for i / BYTE_SIZE >
\* max_index the subtraction overflows (debug build) or the index is out of
\* range (release build); both abort.
get_bit_panics(i) == i \div BYTE_SIZE > max_index

get_bit(key, i) ==
    (key[N - (i \div BYTE_SIZE)] \div (2 ^ (i % BYTE_SIZE))) % 2 = 1

set_bit(key, i) ==
    LET p == N - (i \div BYTE_SIZE)
        b == 2 ^ (i % BYTE_SIZE)
    IN  [key EXCEPT ![p] = IF (key[p] \div b) % 2 = 1 THEN key[p] ELSE key[p] + b]

clear_bit(key, i) ==
    LET p == N - (i \div BYTE_SIZE)
        b == 2 ^ (i % BYTE_SIZE)
    IN  [key EXCEPT ![p] = IF (key[p] \div b) % 2 = 1 THEN key[p] - b ELSE key[p]]

RECURSIVE fork_height_from(_, _, _)
fork_height_from(a, b, h) ==
    IF get_bit(a, h) # get_bit(b, h) THEN h
    ELSE IF h = 0 THEN 0
    ELSE fork_height_from(a, b, h - 1)

\* the lowest differing bit in place of the highest
fork_height_lowest(a, b) ==
    IF a = b THEN 0
    ELSE CHOOSE h \in 0..(BYTE_SIZE * N - 1) :
            /\ get_bit(a, h) # get_bit(b, h)
            /\ \A g \in 0..(h - 1) : get_bit(a, g) = get_bit(b, g)

fork_height(a, b) == fork_height_from(a, b, BYTE_SIZE * N - 1)

Min(a, b) == IF a < b THEN a ELSE b
Max(a, b) == IF a > b THEN a ELSE b

\* the whole bytes copied, the bits of the partial bytes left out
copy_whole_bytes_only(target, key, bits) == target

\* for i in ... { if self.get_bit(i) { target.set_bit(i) } }
RECURSIVE copy_remain_bits(_, _, _)
copy_remain_bits(target, key, bits) ==
    IF bits = {} THEN target
    ELSE LET i == CHOOSE x \in bits : TRUE
         IN  copy_remain_bits(IF get_bit(key, i) THEN set_bit(target, i) ELSE target,
                              key, bits \ {i})

\* copy_bits(start..end); an unbounded end is passed as 8 * N.  The end < start
\* panic is reported by copy_bits_panics.
copy_bits_panics(start, end) ==
    start < BYTE_SIZE * N /\ Min(end, BYTE_SIZE * N) < start

copy_bits(key, start, end0) ==
    LET max == BYTE_SIZE * N
        end == Min(end0, max)
        remain == IF start % BYTE_SIZE # 0 THEN 1 ELSE 0
        end_byte == N - (start \div BYTE_SIZE) - remain
        start_byte == N - (end \div BYTE_SIZE)
        bytes == [j \in 1..N |->
                    IF start_byte < N /\ start_byte <= end_byte
                       /\ start_byte <= j - 1 /\ j - 1 < end_byte
                    THEN key[j] ELSE 0]
        bits == (start .. (Min((N - end_byte) * BYTE_SIZE, end) - 1))
                \cup (Max((N - start_byte) * BYTE_SIZE, start) .. (end - 1))
    IN  IF start >= max THEN TreeKey_zero
        ELSE copy_remain_bits(bytes, key, bits)

parent_path(key, height) == copy_bits(key, height + 1, BYTE_SIZE * N)

\* derive(PartialOrd, Ord) on [u8; N]: lexicographic on the bytes
RECURSIVE key_cmp_from(_, _, _)
key_cmp_from(a, b, j) ==
    IF j > N THEN 0
    ELSE IF a[j] < b[j] THEN -1
    ELSE IF a[j] > b[j] THEN 1
    ELSE key_cmp_from(a, b, j + 1)

key_lt(a, b) == key_cmp_from(a, b, 1) < 0

\* ------------------------------------------------------- H256 and hashing
H256_zero == [i \in 1..DIGEST_LEN |-> 0]

\* The digest standing for a hash input that does not fit DIGEST_LEN cells;
\* the actions exclude every input that produces it.
H256_overflow == [i \in 1..DIGEST_LEN |-> 255]

TAG_LEAF == 1
TAG_BRANCH == 2
TAG_OPAQUE == 3

RECURSIVE term_len(_, _)
term_len(d, i) == IF i = 0 THEN 0 ELSE IF d[i] # 0 THEN i ELSE term_len(d, i - 1)

\* the hash input a digest stands for
Strip(d) == SubSeq(d, 1, term_len(d, DIGEST_LEN))

\* Hasher::finish over the written bytes
Finish(t) ==
    IF Len(t) > DIGEST_LEN THEN H256_overflow
    ELSE [i \in 1..DIGEST_LEN |-> IF i <= Len(t) THEN t[i] ELSE 0]

\* a digest that is the hash of nothing the tree ever hashed
Opaque(j) == Finish(<<TAG_OPAQUE, j>>)

\* spec 4.3: H(key_bytes || value.hash()), or zero for the zero value
hash_leaf(key, value) ==
    IF value = 0 THEN H256_zero
    ELSE Finish(<<TAG_LEAF>> \o [i \in 1..N |-> key[i]] \o <<value>>)

\* spec 4.3: zero if both are zero, the other side if one is zero, else
\* H(left || right)
merge(lhs, rhs) ==
    IF lhs = H256_overflow \/ rhs = H256_overflow THEN H256_overflow
    ELSE IF lhs = H256_zero THEN rhs
    ELSE IF rhs = H256_zero THEN lhs
    ELSE Finish(<<TAG_BRANCH>> \o Strip(lhs) \o Strip(rhs))

\* ------------------------------------------ the tree (spec.md 3, 4.4, 4.5)
\* A child of a BranchNode: the child's digest and the height at which the
\* child sits (0 for a leaf, fork height + 1 for a branch).
Ref(d, h) == [d |-> d, h |-> h]

\* map helpers of the store: inserts overwrite, removes tolerate absence
MapPut(m, k, v) == [x \in (DOMAIN m) \cup {k} |-> IF x = k THEN v ELSE m[x]]
MapDel(m, k) == [x \in (DOMAIN m) \ {k} |-> m[x]]

\* the branch written for a leaf of its own: the leaf on the side of its
\* lowest key bit, zero on the other side
LeafBranch(key, leaf) ==
    IF get_bit(key, 0)
    THEN [left |-> Ref(H256_zero, 0), right |-> Ref(leaf, 0)]
    ELSE [left |-> Ref(leaf, 0), right |-> Ref(H256_zero, 0)]

\* the key of some leaf below the node with digest d
RECURSIVE KeyUnder(_, _, _)
KeyUnder(lm, bm, d) ==
    IF d \in DOMAIN lm THEN lm[d].key
    ELSE KeyUnder(lm, bm, bm[d].left.d)

\* the root digest with the height at which the root node sits
RootRef(lm, bm, rt) ==
    IF rt = H256_zero \/ rt \in DOMAIN lm THEN Ref(rt, 0)
    ELSE Ref(rt, fork_height(KeyUnder(lm, bm, bm[rt].left.d),
                             KeyUnder(lm, bm, bm[rt].right.d)) + 1)

\* a new BranchNode at fork_height(key_a, key_b) + 1 over two sub-trees
MakeFork(bm, a, key_a, b, key_b) ==
    LET Fork(fh, l, r) ==
            LET Put(parent) == [ref |-> Ref(parent, fh + 1),
                                bm |-> MapPut(bm, parent, [left |-> l, right |-> r])]
            IN  Put(merge(l.d, r.d))
        At(fh) == IF get_bit(key_a, fh) THEN Fork(fh, b, a) ELSE Fork(fh, a, b)
    IN  At(fork_height(key_a, key_b))

\* Steps 2 to 4 of update below the node cur: returns the node that replaces
\* cur and the branches map.  leaf is the digest of the new leaf of key (zero
\* when the key is deleted).
RECURSIVE Rebuild(_, _, _, _, _)
Rebuild(lm, bm, cur, key, leaf) ==
    LET Up(right, sibling, sub) ==
            LET Put(l, r, parent) ==
                    [ref |-> Ref(parent, cur.h),
                     bm |-> MapPut(sub.bm, parent, [left |-> l, right |-> r])]
            IN  IF sub.ref.d = H256_zero THEN [ref |-> sibling, bm |-> sub.bm]
                ELSE IF right THEN Put(sibling, sub.ref, merge(sibling.d, sub.ref.d))
                ELSE Put(sub.ref, sibling, merge(sub.ref.d, sibling.d))
        Down(b, right) ==
            Up(right,
               IF right THEN b.left ELSE b.right,
               Rebuild(lm, MapDel(bm, cur.d), IF right THEN b.right ELSE b.left, key, leaf))
        At(k2) ==
            IF key = k2 /\ cur.h = 0 THEN [ref |-> Ref(leaf, 0), bm |-> bm]
            ELSE IF ~(key = k2 \/ fork_height(key, k2) < cur.h) THEN
                (IF leaf = H256_zero THEN [ref |-> cur, bm |-> bm]
                 ELSE MakeFork(bm, Ref(leaf, 0), key, cur, k2))
            ELSE Down(bm[cur.d], get_bit(key, cur.h - 1))
    IN  IF cur.d = H256_zero THEN [ref |-> Ref(leaf, 0), bm |-> bm]
        ELSE At(KeyUnder(lm, bm, cur.d))

\* the digest under which the leaf of key is stored, zero if there is none
LeafOf(lm, key) ==
    IF \E d \in DOMAIN lm : lm[d].key = key
    THEN CHOOSE d \in DOMAIN lm : lm[d].key = key
    ELSE H256_zero

update_keeps_old_leaf(st, key, value) ==
    LET Write(old, leaf) ==
            LET Store(up) ==
                    [root |-> up.ref.d,
                     lm |-> IF leaf = H256_zero THEN st.lm
                            ELSE MapPut(st.lm, leaf, [key |-> key, value |-> value]),
                     bm |-> up.bm]
            IN  Store(Rebuild(st.lm,
                              IF leaf = H256_zero THEN st.bm
                              ELSE MapPut(st.bm, leaf, LeafBranch(key, leaf)),
                              RootRef(st.lm, st.bm, st.root), key, leaf))
        Step1(old) == IF value = 0 /\ old = H256_zero THEN st
                      ELSE Write(old, hash_leaf(key, value))
    IN  Step1(LeafOf(st.lm, key))

\* spec 4.4, steps 2 to 5: the leaf old of the key replaced by leaf in the
\* store, the path rebuilt, the new root
update_write(st, key, value, old, leaf) ==
    LET Store(up) ==
            [root |-> up.ref.d,
             lm |-> IF leaf = H256_zero THEN MapDel(st.lm, old)
                    ELSE MapPut(MapDel(st.lm, old), leaf, [key |-> key, value |-> value]),
             bm |-> up.bm]
    IN  Store(Rebuild(st.lm,
                      IF leaf = H256_zero THEN MapDel(st.bm, old)
                      ELSE MapPut(MapDel(st.bm, old), leaf, LeafBranch(key, leaf)),
                      RootRef(st.lm, st.bm, st.root), key, leaf))

update_zero_as_value(st, key, value) ==
    update_write(st, key, value, LeafOf(st.lm, key),
                 Finish(<<TAG_LEAF>> \o [i \in 1..N |-> key[i]] \o <<value + 1>>))

\* SparseMerkleTree::update (spec 4.4) on the tree st = [root, lm, bm]:
\* step 1, the no-op; then the write
update(st, key, value) ==
    LET Step1(old) == IF value = 0 /\ old = H256_zero THEN st
                      ELSE update_write(st, key, value, old, hash_leaf(key, value))
    IN  Step1(LeafOf(st.lm, key))

\* SparseMerkleTree::get: follow the key's bits from the root
RECURSIVE GetWalk(_, _, _, _)
GetWalk(lm, bm, cur, key) ==
    IF cur.d = H256_zero THEN 0
    ELSE IF cur.h = 0 THEN (IF lm[cur.d].key = key THEN lm[cur.d].value ELSE 0)
    ELSE GetWalk(lm, bm,
                 IF get_bit(key, cur.h - 1) THEN bm[cur.d].right ELSE bm[cur.d].left,
                 key)

get_any_leaf(st, key) ==
    LET r == RootRef(st.lm, st.bm, st.root)
    IN  IF r.d = H256_zero THEN 0
        ELSE st.lm[CHOOSE d \in DOMAIN st.lm : TRUE].value

get(st, key) == GetWalk(st.lm, st.bm, RootRef(st.lm, st.bm, st.root), key)

\* ------------------------------------------- merkle_proof (spec.md 4.5)
\* leaves.sort_unstable_by_key(|(k, _v)| **k) on a list of pairs <<key, value>>
\* with distinct keys (also the order of the keys of merkle_proof)
RECURSIVE sort_by_key(_)
sort_by_key(leaves) ==
    LET Rest(i) == <<leaves[i]>>
                   \o sort_by_key([j \in 1..(Len(leaves) - 1) |->
                                      IF j < i THEN leaves[j] ELSE leaves[j + 1]])
    IN  IF leaves = <<>> THEN <<>>
        ELSE Rest(CHOOSE x \in 1..Len(leaves) :
                    \A y \in 1..Len(leaves) : ~key_lt(leaves[y][1], leaves[x][1]))

RECURSIVE SortedHeights(_)
SortedHeights(S) ==
    LET Rest(m) == <<m>> \o SortedHeights(S \ {m})
    IN  IF S = {} THEN <<>>
        ELSE Rest(CHOOSE x \in S : \A y \in S : x <= y)

\* The non-zero siblings on the path of key: the set of [h, d], d the digest
\* of the sub-tree that is the sibling at height h.
RECURSIVE Siblings(_, _, _, _)
Siblings(lm, bm, cur, key) ==
    LET Down(b, right) ==
            {[h |-> cur.h - 1, d |-> IF right THEN b.left.d ELSE b.right.d]}
            \cup Siblings(lm, bm, IF right THEN b.right ELSE b.left, key)
        At(k2) ==
            IF key = k2 /\ cur.h = 0 THEN {}
            ELSE IF ~(key = k2 \/ fork_height(key, k2) < cur.h)
                 THEN {[h |-> fork_height(key, k2), d |-> cur.d]}
            ELSE Down(bm[cur.d], get_bit(key, cur.h - 1))
    IN  IF cur.d = H256_zero THEN {}
        ELSE At(KeyUnder(lm, bm, cur.d))

\* proof entries in the order of the reconstruction walk: by height, then by
\* the key of the node that consumes them
RECURSIVE SortedProof(_)
SortedProof(S) ==
    LET Rest(m) == <<(<<m.d, m.h>>)>> \o SortedProof(S \ {m})
    IN  IF S = {} THEN <<>>
        ELSE Rest(CHOOSE x \in S :
                    \A y \in S : x = y \/ x.h < y.h \/ (x.h = y.h /\ key_lt(x.k, y.k)))

\* for the i-th of the sorted keys: the heights at which its path meets a
\* non-zero sibling or another queried key, and the siblings that are not
\* rebuilt from queried keys, each with the key of the node that consumes it
KeyPath(st, root_ref, keys, i) ==
    LET Entry(sibs, joins) ==
            [path |-> SortedHeights({s.h : s \in sibs} \cup joins),
             proof |-> {[h |-> s.h, k |-> copy_bits(keys[i], s.h, BYTE_SIZE * N),
                         d |-> s.d] : s \in {x \in sibs : x.h \notin joins}}]
    IN  Entry(Siblings(st.lm, st.bm, root_ref, keys[i]),
              {fork_height(keys[i], keys[j]) : j \in (1..Len(keys)) \ {i}})

RECURSIVE KeyPaths(_, _, _, _)
KeyPaths(st, root_ref, keys, i) ==
    IF i > Len(keys) THEN <<>>
    ELSE <<KeyPath(st, root_ref, keys, i)>> \o KeyPaths(st, root_ref, keys, i + 1)

RECURSIVE PathsOf(_)
PathsOf(entries) ==
    IF entries = <<>> THEN <<>> ELSE <<Head(entries).path>> \o PathsOf(Tail(entries))

RECURSIVE KeysOf(_)
KeysOf(pairs) ==
    IF pairs = <<>> THEN <<>> ELSE <<Head(pairs)[1]>> \o KeysOf(Tail(pairs))

\* SparseMerkleTree::merkle_proof: [leaves_path, proof], leaves_path in the
\* order of the sorted keys
merkle_proof(st, keys) ==
    LET Collect(entries) ==
            [leaves_path |-> PathsOf(entries),
             proof |-> SortedProof(UNION {entries[i].proof : i \in 1..Len(entries)})]
        Sorted(sorted) ==
            Collect(KeyPaths(st, RootRef(st.lm, st.bm, st.root), KeysOf(sorted), 1))
    IN  Sorted(sort_by_key([i \in 1..Len(keys) |-> <<keys[i], 0>>]))

\* ------------------------------------------------- results of the calls
\* Result<T>: Ok(val), Err(err), or a panic (an abort of the call) at `err`
Ok(v) == [kind |-> "Ok", err |-> "", val |-> v, expected |-> 0, actual |-> 0]
Err(e) == [kind |-> "Err", err |-> e, val |-> <<>>, expected |-> 0, actual |-> 0]
IncorrectNumberOfLeaves(exp, act) ==
    [kind |-> "Err", err |-> "IncorrectNumberOfLeaves", val |-> <<>>,
     expected |-> exp, actual |-> act]
\* the loop did not end within the iterations a terminating walk needs
Diverges == [kind |-> "Diverges", err |-> "", val |-> <<>>, expected |-> 0, actual |-> 0]
Panic(where) == [kind |-> "Panic", err |-> where, val |-> <<>>, expected |-> 0, actual |-> 0]

\* ------------------------------------- tree_buf: BTreeMap<(height, key), _>
\* entries [h, key, idx, node]; the map is ordered by (h, key)
buf_first(buf) ==
    CHOOSE e \in buf :
        \A f \in buf : e = f \/ e.h < f.h \/ (e.h = f.h /\ key_lt(e.key, f.key))

buf_insert(buf, h, key, idx, node) ==
    {f \in buf : ~(f.h = h /\ f.key = key)}
    \cup {[h |-> h, key |-> key, idx |-> idx, node |-> node]}

pop_front(q) == IF q = <<>> THEN q ELSE Tail(q)

\* ------------------------------------------ MerkleProof::compute_root
\* lines 186-189
sibling_key_of(key, height) ==
    IF ~get_bit(key, height) THEN set_bit(parent_path(key, height), height)
    ELSE parent_path(key, height)

\* lines 219-223
merge_node_first(key, height, node, sibling) == merge(node, sibling)

merge_by_bit(key, height, node, sibling) ==
    IF get_bit(key, height) THEN merge(sibling, node) ELSE merge(node, sibling)

\* lines 172-176 and 78-81: the loop state is [tree_buf, proof, leaves_path]
Again(buf, proof, lp) ==
    [done |-> FALSE, tree_buf |-> buf, proof |-> proof, leaves_path |-> lp,
     res |-> Ok(<<>>), exhausted |-> FALSE]
Break(r) ==
    [done |-> TRUE, tree_buf |-> {}, proof |-> <<>>, leaves_path |-> <<>>,
     res |-> r, exhausted |-> FALSE]
\* proof.pop_front().expect("pop proof") on an empty queue
PopProofOnEmpty ==
    [done |-> TRUE, tree_buf |-> {}, proof |-> <<>>, leaves_path |-> <<>>,
     res |-> Panic("pop proof"), exhausted |-> TRUE]

\* lines 212-225: merge the popped node e with its sibling
compute_root_merge(s, e, buf2, proof2, sibling, sibling_height, dbg) ==
    LET Insert(height) ==
            IF get_bit_panics(height) THEN Break(Panic("get_bit"))
            ELSE Again(buf_insert(buf2, height + 1, parent_path(e.key, height), e.idx,
                                  merge_by_bit(e.key, height, e.node, sibling)),
                       proof2,
                       [s.leaves_path EXCEPT ![e.idx + 1] = pop_front(@)])
    IN  IF dbg /\ ~(e.h <= sibling_height) THEN Break(Panic("debug_assert"))
        ELSE Insert(IF e.h < sibling_height THEN sibling_height ELSE e.h)

\* the popped node put back where it is, its height and key unchanged
insert_in_place(buf, e, merge_height) ==
    buf_insert(buf, e.h, e.key, e.idx, e.node)

\* the popped node put back at merge_height under its whole key, the bits
\* below merge_height kept
insert_with_whole_key(buf, e, merge_height) ==
    buf_insert(buf, merge_height, e.key, e.idx, e.node)

\* lines 203-205 and 112-114: the popped node put back at merge_height,
\* the levels between skipped
insert_at_merge_height(buf, e, merge_height) ==
    buf_insert(buf, merge_height, copy_bits(e.key, merge_height, BYTE_SIZE * N),
               e.idx, e.node)

\* lines 172-226: one iteration of the loop, tree_buf not empty
compute_root_iter(s, dbg) ==
    LET FromProof(e, buf1, path, merge_height) ==
            IF e.h # merge_height THEN
                (IF dbg /\ ~(e.h < merge_height) THEN Break(Panic("debug_assert"))
                 ELSE Again(insert_at_merge_height(buf1, e, merge_height),
                            s.proof, s.leaves_path))
            ELSE IF s.proof = <<>> THEN PopProofOnEmpty
            ELSE IF dbg /\ path = <<>> THEN Break(Panic("index out of bounds"))
            ELSE IF dbg /\ Head(s.proof)[2] # path[1] THEN Break(Panic("debug_assert_eq"))
            ELSE compute_root_merge(s, e, buf1, Tail(s.proof),
                                    Head(s.proof)[1], Head(s.proof)[2], dbg)
        Sibling(e, buf1, next, path) ==
            IF buf1 # {} /\ next.h = e.h /\ next.key = sibling_key_of(e.key, e.h) THEN
                compute_root_merge(s, e, buf1 \ {next}, s.proof, next.node, e.h, dbg)
            ELSE FromProof(e, buf1, path, IF path # <<>> THEN Head(path) ELSE e.h)
        Popped(e, buf1) ==
            IF s.proof = <<>> /\ buf1 = {} THEN Break(Ok(e.node))
            ELSE IF e.h = BYTE_SIZE * N THEN
                (IF s.proof # <<>> THEN Break(Err("CorruptedProof")) ELSE Break(Ok(e.node)))
            ELSE IF get_bit_panics(e.h) THEN Break(Panic("get_bit"))
            ELSE Sibling(e, buf1, buf_first(buf1), s.leaves_path[e.idx + 1])
        Pop(e) == Popped(e, s.tree_buf \ {e})
    IN  Pop(buf_first(s.tree_buf))

\* Upper bound on the iterations of a walk that ends: every iteration ends
\* the walk, consumes a tree_buf entry, a proof entry or a leaves_path head,
\* or lifts a node (followed by an iteration of one of the other kinds).
RECURSIVE SumLen(_)
SumLen(q) == IF q = <<>> THEN 0 ELSE Len(Head(q)) + SumLen(Tail(q))
Fuel(leaves, proof, lp) == 4 * (Len(leaves) + Len(proof) + SumLen(lp)) + 4

\* lines 172 and 228: the test of the loop, then one iteration or the
\* Err(CorruptedProof) after the loop
compute_root_step(s, dbg) ==
    IF s.tree_buf = {} THEN Break(Err("CorruptedProof"))
    ELSE compute_root_iter(s, dbg)

\* lines 172-228: the loop; Err(CorruptedProof) when tree_buf runs empty
RECURSIVE compute_root_loop(_, _, _)
compute_root_loop(s, dbg, fuel) ==
    IF s.done THEN s
    ELSE IF fuel = 0 /\ s.tree_buf # {} THEN Break(Diverges)
    ELSE compute_root_loop(compute_root_step(s, dbg), dbg, fuel - 1)

\* lines 166-170: tree_buf collected from the sorted leaves
RECURSIVE leaves_buf(_, _, _)
leaves_buf(buf, sorted, i) ==
    IF i > Len(sorted) THEN buf
    ELSE leaves_buf(buf_insert(buf, 0, sorted[i][1], i - 1,
                               hash_leaf(sorted[i][1], sorted[i][2])),
                    sorted, i + 1)

\* the two counts of IncorrectNumberOfLeaves exchanged
compute_root_begin_swapped(leaves_path, proof, leaves) ==
    IF leaves = <<>> THEN Break(Err("EmptyKeys"))
    ELSE IF Len(leaves) # Len(leaves_path) THEN
        Break(IncorrectNumberOfLeaves(Len(leaves), Len(leaves_path)))
    ELSE Again(leaves_buf({}, sort_by_key(leaves), 1), proof, leaves_path)

\* lines 150-170: the checks of the leaf count, then the state the loop
\* starts from
compute_root_begin(leaves_path, proof, leaves) ==
    IF leaves = <<>> THEN Break(Err("EmptyKeys"))
    ELSE IF Len(leaves) # Len(leaves_path) THEN
        Break(IncorrectNumberOfLeaves(Len(leaves_path), Len(leaves)))
    ELSE Again(leaves_buf({}, sort_by_key(leaves), 1), proof, leaves_path)

\* MerkleProof::compute_root with its loop outcome (result and whether the
\* walk asked an empty proof queue for a sibling)
compute_root_run(leaves_path, proof, leaves, dbg) ==
    compute_root_loop(compute_root_begin(leaves_path, proof, leaves),
                      dbg, Fuel(leaves, proof, leaves_path))

MerkleProof_compute_root(leaves_path, proof, leaves, dbg) ==
    compute_root_run(leaves_path, proof, leaves, dbg).res

\* the computed root returned as the verdict, the comparison left out
verify_result_unchecked(calculated_root, root_arg) ==
    IF calculated_root.kind = "Ok" THEN Ok(TRUE) ELSE calculated_root

\* lines 233-244
verify_result(calculated_root, root_arg) ==
    IF calculated_root.kind = "Ok" THEN Ok(calculated_root.val = root_arg)
    ELSE calculated_root

MerkleProof_verify(leaves_path, proof, root_arg, leaves, dbg) ==
    verify_result(MerkleProof_compute_root(leaves_path, proof, leaves, dbg), root_arg)

\* ------------------------------------------------- MerkleProof::compile
\* TREE_HEIGHT of the crate root, 8 * N for the keys of the tests (256, N = 32)
TREE_HEIGHT == BYTE_SIZE * N

\* u64::to_be_bytes of a height below 2^31
to_be_bytes(h) ==
    [i \in 1..HEIGHT_BYTES |->
        IF HEIGHT_BYTES - i >= 4 THEN 0
        ELSE (h \div (256 ^ (HEIGHT_BYTES - i))) % 256]

\* u64::from_be_bytes(..) as usize; every height of 2^24 or more is read as
\* 2^24 (all of them exceed every bit index of a key)
from_be_bytes(b) ==
    IF \E i \in 1..(HEIGHT_BYTES - 3) : b[i] # 0 THEN 256 * 256 * 256
    ELSE b[HEIGHT_BYTES - 2] * 256 * 256 + b[HEIGHT_BYTES - 1] * 256 + b[HEIGHT_BYTES]

\* lines 247-256: a program is [code, range], range = <<start, end>>
leaf_program(leaf_index) ==
    [code |-> <<OP_L>>, range |-> <<leaf_index, leaf_index + 1>>]

\* lines 258-272
proof_program(child, proof, height) ==
    [code |-> child.code \o <<OP_P>> \o to_be_bytes(height) \o proof,
     range |-> child.range]

\* lines 274-314; both ranges are always Some
merge_program_sibling_first(a, b, height) ==
    IF a.range[2] = b.range[1]
    THEN Ok([code |-> b.code \o a.code \o <<OP_H>> \o to_be_bytes(height),
             range |-> <<a.range[1], b.range[2]>>])
    ELSE Err("NonMergableRange")

merge_program(a, b, height) ==
    IF a.range[2] = b.range[1]
    THEN Ok([code |-> a.code \o b.code \o <<OP_H>> \o to_be_bytes(height),
             range |-> <<a.range[1], b.range[2]>>])
    ELSE Err("NonMergableRange")

\* lines 92-131: one iteration of the loop of compile, tree_buf not empty;
\* the nodes of tree_buf are programs
compile_iter(s, dbg) ==
    LET Insert(e, buf2, proof2, height, parent_program) ==
            Again(buf_insert(buf2, height + 1, parent_path(e.key, height), e.idx,
                             parent_program),
                  proof2,
                  [s.leaves_path EXCEPT ![e.idx + 1] = pop_front(@)])
        Merged(e, buf2, r) ==
            IF r.kind # "Ok" THEN Break(r)
            ELSE Insert(e, buf2, s.proof, e.h, r.val)
        FromProof(e, buf1, path, merge_height) ==
            IF e.h # merge_height THEN
                (IF dbg /\ ~(e.h < merge_height) THEN Break(Panic("debug_assert"))
                 ELSE Again(insert_at_merge_height(buf1, e, merge_height),
                            s.proof, s.leaves_path))
            ELSE IF s.proof = <<>> THEN PopProofOnEmpty
            ELSE IF dbg /\ path = <<>> THEN Break(Panic("index out of bounds"))
            ELSE IF dbg /\ Head(s.proof)[2] # path[1] THEN Break(Panic("debug_assert_eq"))
            ELSE IF dbg /\ ~(e.h <= Head(s.proof)[2]) THEN Break(Panic("debug_assert"))
            ELSE Insert(e, buf1, Tail(s.proof),
                        IF e.h < Head(s.proof)[2] THEN Head(s.proof)[2] ELSE e.h,
                        proof_program(e.node, Head(s.proof)[1],
                                      IF e.h < Head(s.proof)[2] THEN Head(s.proof)[2]
                                      ELSE e.h))
        Sibling(e, buf1, next, path) ==
            IF buf1 # {} /\ next.h = e.h /\ next.key = sibling_key_of(e.key, e.h) THEN
                Merged(e, buf1 \ {next}, merge_program(e.node, next.node, e.h))
            ELSE FromProof(e, buf1, path, IF path # <<>> THEN Head(path) ELSE e.h)
        Popped(e, buf1) ==
            IF s.proof = <<>> /\ buf1 = {} THEN Break(Ok(e.node.code))
            ELSE IF e.h = TREE_HEIGHT THEN
                (IF s.proof # <<>> THEN Break(Err("CorruptedProof"))
                 ELSE Break(Ok(e.node.code)))
            ELSE IF get_bit_panics(e.h) THEN Break(Panic("get_bit"))
            ELSE Sibling(e, buf1, buf_first(buf1), s.leaves_path[e.idx + 1])
        Pop(e) == Popped(e, s.tree_buf \ {e})
    IN  Pop(buf_first(s.tree_buf))

\* lines 78 and 134: the test of the loop, then one iteration or the
\* Err(CorruptedProof) after the loop
compile_step(s, dbg) ==
    IF s.tree_buf = {} THEN Break(Err("CorruptedProof"))
    ELSE compile_iter(s, dbg)

\* lines 78-134
RECURSIVE compile_loop(_, _, _)
compile_loop(s, dbg, fuel) ==
    IF s.done THEN s
    ELSE IF fuel = 0 /\ s.tree_buf # {} THEN Break(Diverges)
    ELSE compile_loop(compile_step(s, dbg), dbg, fuel - 1)

\* lines 72-76
RECURSIVE leaves_programs(_, _, _)
leaves_programs(buf, sorted, i) ==
    IF i > Len(sorted) THEN buf
    ELSE leaves_programs(buf_insert(buf, 0, sorted[i][1], i - 1, leaf_program(i - 1)),
                         sorted, i + 1)

\* lines 56-76: the checks of the leaf count, then the state the loop
\* starts from
compile_begin(leaves_path, proof, leaves) ==
    IF leaves = <<>> THEN Break(Err("EmptyKeys"))
    ELSE IF Len(leaves) # Len(leaves_path) THEN
        Break(IncorrectNumberOfLeaves(Len(leaves_path), Len(leaves)))
    ELSE Again(leaves_programs({}, sort_by_key(leaves), 1), proof, leaves_path)

\* MerkleProof::compile, lines 49-135, with its loop outcome
compile_run(leaves_path, proof, leaves, dbg) ==
    compile_loop(compile_begin(leaves_path, proof, leaves),
                 dbg, Fuel(leaves, proof, leaves_path))

compile(leaves_path, proof, leaves, dbg) == compile_run(leaves_path, proof, leaves, dbg).res

\* -------------------------------- CompiledMerkleProof::compute_root (VM)
\* the state of the machine: program_index, leave_index and the stack of
\* [key, value] entries, last pushed last
Running(pi, li, stack) ==
    [done |-> FALSE, program_index |-> pi, leave_index |-> li, stack |-> stack,
     res |-> Ok(<<>>)]
Halt(r) ==
    [done |-> TRUE, program_index |-> 0, leave_index |-> 0, stack |-> <<>>, res |-> r]

Push(stack, key, value) == Append(stack, [key |-> key, value |-> value])
Top(stack, n) == stack[Len(stack) - n]
Drop(stack, n) == SubSeq(stack, 1, Len(stack) - n)

\* lines 338-345
vm_L(code, leaves, s) ==
    IF s.leave_index >= Len(leaves) THEN Halt(Err("CorruptedStack"))
    ELSE Running(s.program_index + 1, s.leave_index + 1,
                 Push(s.stack, leaves[s.leave_index + 1][1],
                      hash_leaf(leaves[s.leave_index + 1][1], leaves[s.leave_index + 1][2])))

\* lines 347-371; pi is program_index after the opcode
vm_P(code, s, pi) ==
    LET Exec(height, proof, top) ==
            IF get_bit_panics(height) THEN Halt(Panic("get_bit"))
            ELSE Running(pi + HEIGHT_BYTES + DIGEST_LEN, s.leave_index,
                         Push(Drop(s.stack, 1), parent_path(top.key, height),
                              IF get_bit(top.key, height) THEN merge(proof, top.value)
                              ELSE merge(top.value, proof)))
    IN  IF s.stack = <<>> THEN Halt(Err("CorruptedStack"))
        ELSE IF pi + 40 > Len(code) THEN Halt(Err("CorruptedProof"))
        ELSE Exec(from_be_bytes(SubSeq(code, pi + 1, pi + HEIGHT_BYTES)),
                  SubSeq(code, pi + HEIGHT_BYTES + 1, pi + HEIGHT_BYTES + DIGEST_LEN),
                  Top(s.stack, 0))

\* lines 373-405; pi is program_index after the opcode
vm_H(code, s, pi) ==
    LET Exec(height, b, a) ==
            LET Check(parent_key_a, parent_key_b, a_set, b_set) ==
                    IF ~((IF ~a_set THEN set_bit(parent_key_a, height) ELSE parent_key_a)
                            = parent_key_b
                         /\ (a_set # b_set))
                    THEN Halt(Err("NonSiblings"))
                    ELSE Running(pi + HEIGHT_BYTES, s.leave_index,
                                 Push(Drop(s.stack, 2), parent_key_a,
                                      IF a_set THEN merge(b.value, a.value)
                                      ELSE merge(a.value, b.value)))
            IN  IF get_bit_panics(height) THEN Halt(Panic("get_bit"))
                ELSE Check(copy_bits(a.key, height, BYTE_SIZE * N),
                           copy_bits(b.key, height, BYTE_SIZE * N),
                           get_bit(a.key, height), get_bit(b.key, height))
    IN  IF Len(s.stack) < 2 THEN Halt(Err("CorruptedStack"))
        ELSE IF pi >= Len(code) THEN Halt(Err("CorruptedProof"))
        ELSE IF pi + HEIGHT_BYTES > Len(code) THEN Halt(Panic("slice index"))
        ELSE Exec(from_be_bytes(SubSeq(code, pi + 1, pi + HEIGHT_BYTES)),
                  Top(s.stack, 0), Top(s.stack, 1))

\* every unknown opcode reported as InvalidCode(0)
vm_step_code_zero(code, leaves, s) ==
    LET Exec(op) ==
            IF op = OP_L THEN vm_L(code, leaves, s)
            ELSE IF op = OP_P THEN vm_P(code, s, s.program_index + 1)
            ELSE IF op = OP_H THEN vm_H(code, s, s.program_index + 1)
            ELSE Halt(Err("InvalidCode"))
    IN  Exec(code[s.program_index + 1])

\* lines 333-408: one instruction
vm_step(code, leaves, s) ==
    LET Exec(op) ==
            IF op = OP_L THEN vm_L(code, leaves, s)
            ELSE IF op = OP_P THEN vm_P(code, s, s.program_index + 1)
            ELSE IF op = OP_H THEN vm_H(code, s, s.program_index + 1)
            ELSE Halt([Err("InvalidCode") EXCEPT !.actual = op])
    IN  Exec(code[s.program_index + 1])

\* the digest on top of a stack of any depth returned as the root
vm_iter_any_depth(code, leaves, s) ==
    IF ~(s.program_index < Len(code)) THEN
        (IF s.stack = <<>> THEN Halt(Err("CorruptedStack"))
         ELSE Halt(Ok(Top(s.stack, 0).value)))
    ELSE vm_step(code, leaves, s)

\* lines 333 and 409-412: the test of the loop, then one instruction or the
\* check of the stack after the loop
vm_iter(code, leaves, s) ==
    IF ~(s.program_index < Len(code)) THEN
        (IF Len(s.stack) # 1 THEN Halt(Err("CorruptedStack"))
         ELSE Halt(Ok(s.stack[1].value)))
    ELSE vm_step(code, leaves, s)

\* lines 333-412
RECURSIVE vm_loop(_, _, _, _)
vm_loop(code, leaves, s, fuel) ==
    IF s.done THEN s
    ELSE IF fuel = 0 /\ s.program_index < Len(code) THEN Halt(Diverges)
    ELSE vm_loop(code, leaves, vm_iter(code, leaves, s), fuel - 1)

\* CompiledMerkleProof::compute_root, lines 321-413
CompiledMerkleProof_compute_root(code, leaves) ==
    vm_loop(code, sort_by_key(leaves), Running(0, 0, <<>>), Len(code) + 1).res

\* lines 415-426
CompiledMerkleProof_verify(code, root_arg, leaves) ==
    verify_result(CompiledMerkleProof_compute_root(code, leaves), root_arg)

\* ------------------------------------------------------------ the system
VARIABLES
    root,          \* SparseMerkleTree::root
    leaves_map,    \* store: digest -> LeafNode
    branches_map,  \* store: digest -> BranchNode
    model,         \* history: the value of the most recent update of each key
    touched,       \* history: the keys updated so far, while each was updated once
    once,          \* history: no key has been updated twice
    last,          \* history: the most recent update and the tree before it
    call           \* the most recent proof call with its inputs and result

vars == <<root, leaves_map, branches_map, model, touched, once, last, call>>

MkKey(hi, lo) == [i \in 1..N |-> IF i = 1 THEN hi ELSE IF i = N THEN lo ELSE 0]

\* the keys the callers use: fork heights 0, 8 * (N - 1) and 8 * N - 1
Keys == {MkKey(0, 0), MkKey(0, 1), MkKey(1, 1), MkKey(128, 0)}
Values == 0..MaxVal
ProofValues == 0..MaxProofVal

EmptyMap == [x \in {} |-> 0]
EmptyTree == [root |-> H256_zero, lm |-> EmptyMap, bm |-> EmptyMap]
Tree == [root |-> root, lm |-> leaves_map, bm |-> branches_map]

NoUpdate == [kind |-> "none", key |-> TreeKey_zero, value |-> 0, pre |-> EmptyTree]
NoCall == [op |-> "none", leaves |-> <<>>, leaves_path |-> <<>>, proof |-> <<>>,
           code |-> <<>>, root_arg |-> H256_zero, dbg |-> FALSE, res |-> Ok(<<>>),
           exhausted |-> FALSE]

\* sequences of distinct keys, 1..MaxQuery long
RECURSIVE KeySeqs(_)
KeySeqs(n) ==
    IF n = 0 THEN {<<>>}
    ELSE LET shorter == KeySeqs(n - 1)
         IN  shorter \cup {Append(q, k) : q \in {x \in shorter : Len(x) = n - 1},
                                          k \in Keys}
Distinct(q) == \A i, j \in 1..Len(q) : i # j => q[i] # q[j]
Queries == {q \in KeySeqs(MaxQuery) : q # <<>> /\ Distinct(q)}

Init ==
    /\ root = H256_zero
    /\ leaves_map = EmptyMap
    /\ branches_map = EmptyMap
    /\ model = [k \in Keys |-> 0]
    /\ touched = {}
    /\ once = TRUE
    /\ last = NoUpdate
    /\ call = NoCall

\* the history entry of update(key, value) on the current tree
UpdateKind(key, value) ==
    LET Kind(absent) ==
            IF absent /\ value = 0 THEN "zero_absent"
            ELSE IF absent THEN "insert_absent"
            ELSE IF value = 0 /\ last.kind = "insert_absent" /\ last.key = key
                 THEN "delete_after_insert"
            ELSE "other"
    IN  Kind(LeafOf(leaves_map, key) = H256_zero)

\* tree.update(key, value)
Update(key, value) ==
    /\ call.op = "none"
    /\ \E t \in {update(Tree, key, value)}, kind \in {UpdateKind(key, value)} :
        /\ t.root # H256_overflow
        /\ root' = t.root
        /\ leaves_map' = t.lm
        /\ branches_map' = t.bm
        /\ model' = [model EXCEPT ![key] = value]
        /\ once' = (once /\ key \notin touched)
        /\ touched' = IF once /\ key \notin touched THEN touched \cup {key} ELSE {}
        /\ last' = [kind |-> kind, key |-> key, value |-> value,
                    pre |-> IF kind = "delete_after_insert" THEN last.pre
                            ELSE IF kind = "other" THEN EmptyTree
                            ELSE Tree]
        /\ call' = NoCall

\* tree.update(key, value), the history left unrecorded
UpdateUntracked(key, value) ==
    /\ call.op = "none"
    /\ \E t \in {update(Tree, key, value)} :
        /\ t.root # H256_overflow
        /\ root' = t.root
        /\ leaves_map' = t.lm
        /\ branches_map' = t.bm
        /\ model' = [model EXCEPT ![key] = value]
        /\ once' = FALSE
        /\ touched' = {}
        /\ last' = NoUpdate
        /\ call' = NoCall

\* the pairs of a query: every key with the value the tree holds for it
RECURSIVE PairsFor(_)
PairsFor(q) ==
    IF q = <<>> THEN <<>>
    ELSE << <<Head(q), get(Tree, Head(q))>> >> \o PairsFor(Tail(q))

\* tree.merkle_proof(keys) followed by proof.verify(tree.root(), pairs)
ProveVerify(q, dbg) ==
    /\ call.op = "none"
    /\ \E p \in {merkle_proof(Tree, q)}, pairs \in {PairsFor(q)} :
       \E run \in {compute_root_run(p.leaves_path, p.proof, pairs, dbg)} :
        /\ run.res.val # H256_overflow
        /\ call' = [op |-> "verify", leaves |-> pairs,
                    leaves_path |-> p.leaves_path, proof |-> p.proof,
                    code |-> <<>>, root_arg |-> root, dbg |-> dbg,
                    res |-> verify_result(run.res, root),
                    exhausted |-> run.exhausted]
        /\ UNCHANGED <<root, leaves_map, branches_map, model, touched, once, last>>

\* tree.merkle_proof(keys), proof.compile(pairs) and
\* compiled.verify(tree.root(), pairs)
ProveCompileVerify(q, dbg) ==
    /\ call.op = "none"
    /\ \E p \in {merkle_proof(Tree, q)}, pairs \in {PairsFor(q)} :
       \E c \in {compile(p.leaves_path, p.proof, pairs, dbg)} :
       \E r \in {IF c.kind = "Ok" THEN CompiledMerkleProof_compute_root(c.val, pairs)
                 ELSE c} :
        /\ r.val # H256_overflow
        /\ call' = [op |-> "compiled_verify", leaves |-> pairs,
                    leaves_path |-> p.leaves_path, proof |-> p.proof,
                    code |-> IF c.kind = "Ok" THEN c.val ELSE <<>>,
                    root_arg |-> root, dbg |-> dbg,
                    res |-> verify_result(r, root),
                    exhausted |-> FALSE]
        /\ UNCHANGED <<root, leaves_map, branches_map, model, touched, once, last>>

\* the keys of a query in key order
RECURSIVE KeyOrder(_)
KeyOrder(ks) ==
    LET Rest(k) == <<k>> \o KeyOrder(ks \ {k})
    IN  IF ks = {} THEN <<>>
        ELSE Rest(CHOOSE k \in ks : \A k2 \in ks : ~key_lt(k2, k))

\* the non-empty sets of at most MaxQuery keys, each as a sequence
QuerySets == {KeyOrder(ks) : ks \in {x \in SUBSET Keys : x # {} /\ Cardinality(x) <= MaxQuery}}

\* roots that are not the tree's
OtherRoots == {H256_zero, Opaque(1)} \ {root}

\* tree.merkle_proof(keys) and proof.verify(tree.root(), pairs) with the
\* value of pair i replaced by v
TamperValue(q, i, v, dbg) ==
    /\ call.op = "none"
    /\ \E p \in {merkle_proof(Tree, q)}, pairs \in {PairsFor(q)} :
        /\ v # pairs[i][2]
        /\ \E tampered \in {[pairs EXCEPT ![i] = <<pairs[i][1], v>>]} :
           \E run \in {compute_root_run(p.leaves_path, p.proof, tampered, dbg)} :
            /\ run.res.val # H256_overflow
            /\ call' = [op |-> "tampered_verify", leaves |-> tampered,
                        leaves_path |-> p.leaves_path, proof |-> p.proof,
                        code |-> <<>>, root_arg |-> root, dbg |-> dbg,
                        res |-> verify_result(run.res, root),
                        exhausted |-> run.exhausted]
    /\ UNCHANGED <<root, leaves_map, branches_map, model, touched, once, last>>

\* tree.merkle_proof(keys) and proof.verify(r, pairs) with a root r that is
\* not the tree's
TamperRoot(q, r, dbg) ==
    /\ call.op = "none"
    /\ r # root
    /\ \E p \in {merkle_proof(Tree, q)}, pairs \in {PairsFor(q)} :
       \E run \in {compute_root_run(p.leaves_path, p.proof, pairs, dbg)} :
        /\ run.res.val # H256_overflow
        /\ call' = [op |-> "tampered_verify", leaves |-> pairs,
                    leaves_path |-> p.leaves_path, proof |-> p.proof,
                    code |-> <<>>, root_arg |-> r, dbg |-> dbg,
                    res |-> verify_result(run.res, r),
                    exhausted |-> run.exhausted]
    /\ UNCHANGED <<root, leaves_map, branches_map, model, touched, once, last>>

\* MerkleProof values that merkle_proof need not have produced, with the
\* pairs they are verified for: heights at the lowest bit, the highest bit
\* and past the key; siblings the tree's root and a digest foreign to it
ForgedHeights == {0, BYTE_SIZE * N - 1, BYTE_SIZE * N + 1}
ForgedPaths == {<<>>} \cup {<<h>> : h \in ForgedHeights}
ForgedProofs(digests, heights) ==
    {<<>>} \cup {<< <<d, h>> >> : d \in digests, h \in heights}
Forged(rt) ==
    {[leaves |-> << <<MkKey(0, 0), v>> >>, leaves_path |-> <<path>>, proof |-> pr] :
        v \in {0, 1}, path \in ForgedPaths,
        pr \in ForgedProofs({rt, Opaque(1)}, ForgedHeights)}
    \cup
    {[leaves |-> << <<MkKey(0, 0), v>>, <<MkKey(1, 1), w>> >>,
      leaves_path |-> <<path, path>>, proof |-> pr] :
        v \in {0, 1}, w \in {0, 1}, path \in {<<>>, <<BYTE_SIZE * N - 1>>},
        pr \in ForgedProofs({Opaque(1)}, {BYTE_SIZE * N - 1})}

\* MerkleProof::new(leaves_path, proof).verify(tree.root(), leaves) on a
\* proof of the caller's making
VerifyForged(a, dbg) ==
    /\ call.op = "none"
    /\ \E run \in {compute_root_run(a.leaves_path, a.proof, a.leaves, dbg)} :
        /\ run.res.val # H256_overflow
        /\ call' = [op |-> "forged_verify", leaves |-> a.leaves,
                    leaves_path |-> a.leaves_path, proof |-> a.proof,
                    code |-> <<>>, root_arg |-> root, dbg |-> dbg,
                    res |-> verify_result(run.res, root),
                    exhausted |-> run.exhausted]
    /\ UNCHANGED <<root, leaves_map, branches_map, model, touched, once, last>>

\* MerkleProof::new(leaves_path, proof).compile(leaves) on a proof of the
\* caller's making
CompileForged(a, dbg) ==
    /\ call.op = "none"
    /\ \E run \in {compile_run(a.leaves_path, a.proof, a.leaves, dbg)} :
        /\ call' = [op |-> "forged_compile", leaves |-> a.leaves,
                    leaves_path |-> a.leaves_path, proof |-> a.proof,
                    code |-> IF run.res.kind = "Ok" THEN run.res.val ELSE <<>>,
                    root_arg |-> root, dbg |-> dbg,
                    res |-> IF run.res.kind = "Ok" THEN Ok(TRUE) ELSE run.res,
                    exhausted |-> run.exhausted]
    /\ UNCHANGED <<root, leaves_map, branches_map, model, touched, once, last>>

\* programs that compile need not have produced: one leaf and a sibling
\* operand, two leaves and a merge, with the heights above
ForgedCode(rt) ==
    {<<OP_L, OP_P>> \o to_be_bytes(h) \o d : h \in ForgedHeights, d \in {rt, Opaque(1)}}
    \cup {<<OP_L, OP_L, OP_H>> \o to_be_bytes(h) : h \in ForgedHeights}
ForgedLeaves ==
    {<< <<MkKey(0, 0), 1>> >>, << <<MkKey(0, 0), 1>>, <<MkKey(0, 1), 1>> >>}

\* CompiledMerkleProof(code).verify(tree.root(), leaves) on a program of the
\* caller's making
VerifyForgedCode(code, leaves) ==
    /\ call.op = "none"
    /\ \E r \in {CompiledMerkleProof_compute_root(code, leaves)} :
        /\ r.val # H256_overflow
        /\ call' = [op |-> "forged_code_verify", leaves |-> leaves,
                    leaves_path |-> <<>>, proof |-> <<>>,
                    code |-> code, root_arg |-> root, dbg |-> FALSE,
                    res |-> verify_result(r, root),
                    exhausted |-> FALSE]
    /\ UNCHANGED <<root, leaves_map, branches_map, model, touched, once, last>>

\* the call returns; the proof and the pairs are dropped
Return ==
    /\ call.op # "none"
    /\ call' = NoCall
    /\ UNCHANGED <<root, leaves_map, branches_map, model, touched, once, last>>

\* the tree under updates, with the history of the updates
Next ==
    \E k \in Keys, v \in Values : Update(k, v)

Spec == Init /\ [][Next]_vars

\* the tree under updates and the proof calls made on it
NextProof ==
    \/ \E k \in Keys, v \in ProofValues : UpdateUntracked(k, v)
    \/ \E q \in Queries, dbg \in BOOLEAN : ProveVerify(q, dbg)
    \/ \E q \in Queries, dbg \in BOOLEAN : ProveCompileVerify(q, dbg)
    \/ \E q \in QuerySets, v \in Values, dbg \in BOOLEAN :
          \E i \in 1..Len(q) : TamperValue(q, i, v, dbg)
    \/ \E q \in QuerySets, r \in OtherRoots, dbg \in BOOLEAN : TamperRoot(q, r, dbg)
    \/ \E a \in Forged(root), dbg \in BOOLEAN : VerifyForged(a, dbg)
    \/ \E a \in Forged(root), dbg \in BOOLEAN : CompileForged(a, dbg)
    \/ \E code \in ForgedCode(root), leaves \in ForgedLeaves :
          VerifyForgedCode(code, leaves)
    \/ Return

SpecProof == Init /\ [][NextProof]_vars

\* ------------------ the reconstruction walk, one iteration at a time
\* the proof entries and the leaves_path heights of one MerkleProof::new
MaxWalk == 3

\* heights at the lowest bit, the highest bit and past the key
WalkHeights == {0, BYTE_SIZE * N - 1, BYTE_SIZE * N + 1}

\* the sequences of n heights
RECURSIVE HeightSeqs(_)
HeightSeqs(n) ==
    IF n = 0 THEN {<<>>}
    ELSE {<<h>> \o q : h \in WalkHeights, q \in HeightSeqs(n - 1)}

\* the proofs of n entries, every sibling a digest foreign to the tree
RECURSIVE WalkProofs(_)
WalkProofs(n) ==
    IF n = 0 THEN {<<>>}
    ELSE {<< <<Opaque(1), h>> >> \o q : h \in WalkHeights, q \in WalkProofs(n - 1)}

\* the leaves_path values of n leaves with at most budget heights in all
RECURSIVE PathLists(_, _)
PathLists(n, budget) ==
    IF n = 0 THEN {<<>>}
    ELSE UNION {{<<p>> \o rest : rest \in PathLists(n - 1, budget - Len(p))} :
                    p \in UNION {HeightSeqs(l) : l \in 0..budget}}

\* the pairs handed to compute_root and compile: none, one, two that fork
\* at the first bit of the last byte but one, two that fork at the lowest
\* bit, two that fork at the highest bit and three
WalkLeaves ==
    {<<>>,
     << <<MkKey(0, 0), 1>> >>,
     << <<MkKey(0, 0), 1>>, <<MkKey(1, 1), 1>> >>,
     << <<MkKey(0, 0), 1>>, <<MkKey(0, 1), 1>> >>,
     << <<MkKey(0, 0), 1>>, <<MkKey(128, 0), 1>> >>,
     << <<MkKey(0, 0), 1>>, <<MkKey(0, 1), 1>>, <<MkKey(1, 1), 1>> >>}

WalkInputs ==
    UNION {{[leaves |-> l, leaves_path |-> lp, proof |-> pr] :
                l \in WalkLeaves, lp \in PathLists(n, MaxWalk - c), pr \in WalkProofs(c)} :
           n \in {Len(l) : l \in WalkLeaves}, c \in 0..MaxWalk}

Walking == call.op \in {"compute_root", "compile"}

\* one iteration that puts the popped node back and consumes nothing
Reinserted(s, t) ==
    /\ ~t.done
    /\ t.proof = s.proof
    /\ t.leaves_path = s.leaves_path
    /\ Cardinality(t.tree_buf) = Cardinality(s.tree_buf)

\* MerkleProof::new(leaves_path, proof).compute_root(leaves), up to its loop
ComputeRootBegin(a, dbg) ==
    /\ call.op = "none"
    /\ compute_root_run(a.leaves_path, a.proof, a.leaves, dbg).res.val # H256_overflow
    /\ \E s \in {compute_root_begin(a.leaves_path, a.proof, a.leaves)} :
        call' = [op |-> "compute_root", leaves |-> a.leaves,
                 leaves_path |-> a.leaves_path, proof |-> a.proof, dbg |-> dbg,
                 prev |-> s, s |-> s, stepped |-> FALSE, reinserted |-> FALSE]
    /\ UNCHANGED <<root, leaves_map, branches_map, model, touched, once, last>>

\* MerkleProof::new(leaves_path, proof).compile(leaves), up to its loop
CompileBegin(a, dbg) ==
    /\ call.op = "none"
    /\ \E s \in {compile_begin(a.leaves_path, a.proof, a.leaves)} :
        call' = [op |-> "compile", leaves |-> a.leaves,
                 leaves_path |-> a.leaves_path, proof |-> a.proof, dbg |-> dbg,
                 prev |-> s, s |-> s, stepped |-> FALSE, reinserted |-> FALSE]
    /\ UNCHANGED <<root, leaves_map, branches_map, model, touched, once, last>>

\* one pass through the loop of the call in progress
WalkStep ==
    /\ Walking
    /\ ~call.s.done
    /\ \E t \in {IF call.op = "compile" THEN compile_step(call.s, call.dbg)
                 ELSE compute_root_step(call.s, call.dbg)} :
        call' = [call EXCEPT !.prev = call.s, !.s = t, !.stepped = TRUE,
                             !.reinserted = @ \/ Reinserted(call.s, t)]
    /\ UNCHANGED <<root, leaves_map, branches_map, model, touched, once, last>>

\* the program compile returned run on the same pairs, next to the root
\* compute_root gives for the same proof and pairs
RunCompiled ==
    /\ call.op = "compile"
    /\ call.s.done
    /\ call.s.res.kind = "Ok"
    /\ \E r \in {CompiledMerkleProof_compute_root(call.s.res.val, call.leaves)},
          m \in {MerkleProof_compute_root(call.leaves_path, call.proof,
                                          call.leaves, call.dbg)} :
        /\ r.val # H256_overflow
        /\ m.val # H256_overflow
        /\ call' = [op |-> "compiled_compute_root", leaves |-> call.leaves,
                    leaves_path |-> call.leaves_path, proof |-> call.proof,
                    dbg |-> call.dbg, code |-> call.s.res.val,
                    res |-> r, structured |-> m]
    /\ UNCHANGED <<root, leaves_map, branches_map, model, touched, once, last>>

\* the call has returned; the proof and the pairs are dropped
WalkReturn ==
    /\ \/ Walking /\ call.s.done
       \/ call.op = "compiled_compute_root"
    /\ call' = NoCall
    /\ UNCHANGED <<root, leaves_map, branches_map, model, touched, once, last>>

NextWalk ==
    \/ call.op = "none"
       /\ \E a \in WalkInputs, dbg \in BOOLEAN : ComputeRootBegin(a, dbg)
    \/ call.op = "none"
       /\ \E a \in WalkInputs, dbg \in BOOLEAN : CompileBegin(a, dbg)
    \/ WalkStep
    \/ RunCompiled
    \/ WalkReturn

SpecWalk == Init /\ [][NextWalk]_vars

\* ------------------------ the stack machine, one instruction at a time
\* the complete instructions of one program
MaxOps == 4

\* L; P with a height and a digest foreign to the tree; H with a height
VMInstrs ==
    {<<OP_L>>, <<OP_P>> \o to_be_bytes(1) \o Opaque(1),
     <<OP_H>> \o to_be_bytes(0), <<OP_H>> \o to_be_bytes(1)}

\* the programs of n complete instructions
RECURSIVE VMBodies(_)
VMBodies(n) ==
    IF n = 0 THEN {<<>>}
    ELSE {i \o b : i \in VMInstrs, b \in VMBodies(n - 1)}

\* what a program ends with: nothing, a byte that is no opcode, or a P or H
\* whose operand is cut short
VMTails ==
    {<<>>, <<0>>, <<255>>,
     <<OP_P>>, <<OP_P>> \o to_be_bytes(1) \o SubSeq(Opaque(1), 1, DIGEST_LEN - 1),
     <<OP_H>>, <<OP_H, 0>>, <<OP_H>> \o SubSeq(to_be_bytes(0), 1, HEIGHT_BYTES - 1)}

VMCode == {b \o e : b \in UNION {VMBodies(n) : n \in 0..MaxOps}, e \in VMTails}

\* the pairs handed to the machine: none, one, two that fork at bit 0 and
\* two that fork at bit 1
VMLeaves ==
    {<<>>,
     << <<MkKey(0, 0), 1>> >>,
     << <<MkKey(0, 0), 1>>, <<MkKey(0, 1), 1>> >>,
     << <<MkKey(0, 1), 1>>, <<MkKey(0, 2), 1>> >>}

\* CompiledMerkleProof(code).compute_root(leaves), up to its loop
VMBegin(code, leaves) ==
    /\ call.op = "none"
    /\ CompiledMerkleProof_compute_root(code, leaves).val # H256_overflow
    /\ call' = [op |-> "vm", code |-> code, leaves |-> sort_by_key(leaves),
                prev |-> Running(0, 0, <<>>), s |-> Running(0, 0, <<>>),
                stepped |-> FALSE]
    /\ UNCHANGED <<root, leaves_map, branches_map, model, touched, once, last>>

\* one pass through the loop of the machine
VMStep ==
    /\ call.op = "vm"
    /\ ~call.s.done
    /\ \E t \in {vm_iter(call.code, call.leaves, call.s)} :
        call' = [call EXCEPT !.prev = call.s, !.s = t, !.stepped = TRUE]
    /\ UNCHANGED <<root, leaves_map, branches_map, model, touched, once, last>>

\* the call has returned
VMReturn ==
    /\ call.op = "vm"
    /\ call.s.done
    /\ call' = NoCall
    /\ UNCHANGED <<root, leaves_map, branches_map, model, touched, once, last>>

NextVM ==
    \/ call.op = "none"
       /\ \E code \in VMCode, leaves \in VMLeaves : VMBegin(code, leaves)
    \/ VMStep
    \/ VMReturn

SpecVM == Init /\ [][NextVM]_vars

\* ------------------------------------------------ TreeKey::copy_bits
\* the bytes of the keys copied from: no bit, alternating bits, every bit
KeyBytes == {0, 165, 255}

\* every key of those bytes
CopyKeys == [1..N -> KeyBytes]

\* key.copy_bits(start..end) of a caller, start <= end, both up to past the
\* last bit of the key
CopyBits(key, start, end) ==
    /\ call.op = "none"
    /\ start <= end
    /\ call' = [op |-> "copy_bits", key |-> key, start |-> start, end |-> end,
                res |-> copy_bits(key, start, end)]
    /\ UNCHANGED <<root, leaves_map, branches_map, model, touched, once, last>>

NextKey ==
    \/ call.op = "none"
       /\ \E key \in CopyKeys, start, end \in 0..(BYTE_SIZE * N + 2) :
             CopyBits(key, start, end)
    \/ Return

SpecKey == Init /\ [][NextKey]_vars

\* ------------------------------------------------- the claims on the tree
\* the updates of the keys ks with the values m, applied in key order
RECURSIVE UpdateAll(_, _, _)
UpdateAll(st, ks, m) ==
    LET Rest(k) == UpdateAll(update(st, k, m[k]), ks \ {k}, m)
    IN  IF ks = {} THEN st
        ELSE Rest(CHOOSE k \in ks : \A k2 \in ks : ~key_lt(k2, k))

\* C4: while every key has been updated at most once since the empty tree,
\* in whatever order, the root is the root the same updates give in key
\* order; so every permutation of the pairs gives the same root.
C4_OrderIndependence ==
    once => root = UpdateAll(EmptyTree, touched, model).root

\* every key updated once, one of them with zero, the smallest key last
C4_Witness ==
    /\ once
    /\ touched = Keys
    /\ last.key = MkKey(0, 0)
    /\ model[MkKey(0, 1)] = 0
    /\ model[MkKey(1, 1)] # 0
    /\ model[MkKey(128, 0)] # 0

\* C5: after update(k, v), v non-zero, of an absent key k and then
\* update(k, zero), root, leaves_map and branches_map are those before the
\* insert.
C5_DeleteInvertsInsert ==
    last.kind = "delete_after_insert" => Tree = last.pre

\* a key inserted into a tree of two keys and deleted again
C5_Witness ==
    /\ last.kind = "delete_after_insert"
    /\ Cardinality(DOMAIN last.pre.lm) = 2
    /\ Cardinality(DOMAIN leaves_map) = 2

\* C6: update(key, zero) of a key that is not in the tree leaves root,
\* leaves_map and branches_map as they were, and get(k) for every key k.
C6_ZeroUpdateOfAbsentKey ==
    last.kind = "zero_absent" =>
        /\ Tree = last.pre
        /\ \A k \in Keys : get(Tree, k) = get(last.pre, k)

\* a zero update of an absent key on a tree that holds other keys
C6_Witness ==
    /\ last.kind = "zero_absent"
    /\ Cardinality(DOMAIN leaves_map) >= 2

\* C7: get(k) is the value of the most recent update of k, zero if k was
\* never updated or last updated with zero.
C7_MapSemantics ==
    \A k \in Keys : get(Tree, k) = model[k]

\* a key that held a value was given another one, in a tree of several keys
C7_Witness ==
    /\ last.kind = "other"
    /\ last.value # 0
    /\ get(Tree, last.key) = last.value
    /\ Cardinality(DOMAIN leaves_map) >= 2

\* ----------------------------------------------- the claims on the proofs
\* C1: for every tree reached by updates and every non-empty sequence of
\* distinct keys, present or absent, the proof of merkle_proof verifies
\* against the tree's root and the pairs (k, get(k)): Ok(true).
C1_ProofCompleteness ==
    call.op = "verify" => call.res = Ok(TRUE)

\* a proof for a present and an absent key, given out of key order, with a
\* sibling from the proof
C1_Witness ==
    /\ call.op = "verify"
    /\ Len(call.leaves) = 2
    /\ key_lt(call.leaves[2][1], call.leaves[1][1])
    /\ call.leaves[1][2] # 0
    /\ call.leaves[2][2] = 0
    /\ call.proof # <<>>
    /\ call.res = Ok(TRUE)

\* C2: whenever verify(tree.root, pairs) of any MerkleProof returns
\* Ok(true), every pair (k, v) has get(k) = v.
C2_ProofSoundness ==
    (/\ call.op \in {"verify", "tampered_verify", "forged_verify"}
     /\ call.root_arg = root
     /\ call.res = Ok(TRUE))
    => \A i \in 1..Len(call.leaves) :
          get(Tree, call.leaves[i][1]) = call.leaves[i][2]

\* C3: for every tree reached by updates and every non-empty sequence of
\* distinct keys, merkle_proof(K).compile(pairs) succeeds and the compiled
\* proof verifies against the tree's root and the pairs: Ok(true).
C3_CompiledCompleteness ==
    call.op = "compiled_verify" => call.res = Ok(TRUE)

\* a compiled proof of three keys with a sibling operand and a merge
C3_Witness ==
    /\ call.op = "compiled_verify"
    /\ Len(call.leaves) = 3
    /\ \E i \in 1..Len(call.code) : call.code[i] = OP_H
    /\ call.proof # <<>>
    /\ \E i \in 1..3 : call.leaves[i][2] = 0
    /\ call.res = Ok(TRUE)

\* C8: with the value of one pair replaced by another value, or the root by
\* another root, verify of the proof of merkle_proof returns Ok(false).
C8_TamperDetection ==
    call.op = "tampered_verify" => call.res = Ok(FALSE)

\* a value replaced in a proof of two keys
C8_Witness ==
    /\ call.op = "tampered_verify"
    /\ call.root_arg = root
    /\ Len(call.leaves) = 2
    /\ \E i \in 1..2 : call.leaves[i][2] # 0 /\ get(Tree, call.leaves[i][1]) = 0
    /\ call.res = Ok(FALSE)

\* C9: compute_root, verify and compile return Ok or a typed Err for every
\* MerkleProof and every list of pairs; none of them panics.
C9_NoPanic ==
    call.res.kind # "Panic"

\* C10: when the walk needs a sibling from the proof queue and the queue is
\* empty, the call returns Err(CorruptedProof).
C10_ExhaustionIsAnError ==
    call.exhausted => call.res = Err("CorruptedProof")

\* ----------------------------------------- the claims on the walk
\* lines 174-196 and 80-102: the next iteration pops a node, does not
\* return and does not find the node's sibling in tree_buf, so it turns to
\* leaves_path and the proof
TurnsToProof(s) ==
    /\ ~s.done
    /\ s.tree_buf # {}
    /\ \E e \in {buf_first(s.tree_buf)} :
       \E buf1 \in {s.tree_buf \ {e}} :
        /\ ~(s.proof = <<>> /\ buf1 = {})
        /\ e.h # BYTE_SIZE * N
        /\ ~get_bit_panics(e.h)
        /\ ~(buf1 # {} /\ buf_first(buf1).h = e.h
                /\ buf_first(buf1).key = sibling_key_of(e.key, e.h))

\* the leaves_path entry of the node the next iteration pops
PoppedPath(s) == s.leaves_path[buf_first(s.tree_buf).idx + 1]

\* lines 208-209: the next iteration consumes a proof entry whose height is
\* not the head of the node's leaves_path entry
ProofHeightMismatch(s) ==
    /\ TurnsToProof(s)
    /\ PoppedPath(s) # <<>>
    /\ Head(PoppedPath(s)) = buf_first(s.tree_buf).h
    /\ s.proof # <<>>
    /\ Head(s.proof)[2] # Head(PoppedPath(s))

\* lines 197-202: the head of the node's leaves_path entry is below the
\* node's height
PathHeadLower(s) ==
    /\ TurnsToProof(s)
    /\ PoppedPath(s) # <<>>
    /\ Head(PoppedPath(s)) < buf_first(s.tree_buf).h

\* C11: in MerkleProof::compute_root, an iteration that consumes a proof
\* entry whose height differs from the head of the node's leaves_path entry,
\* or that meets a leaves_path head below the node's height, ends the call
\* with Err(CorruptedProof).
C11_InconsistentHeightsRejected ==
    (/\ call.op = "compute_root"
     /\ call.stepped
     /\ ProofHeightMismatch(call.prev) \/ PathHeadLower(call.prev))
    => call.s.res = Err("CorruptedProof")

C18_ExcessProofRejected ==
    (/\ call.op = "compute_root"
     /\ call.stepped
     /\ call.s.done
     /\ call.s.res.kind = "Ok")
    => /\ call.prev.proof = <<>>
       /\ Cardinality(call.prev.tree_buf) = 1

\* C19: whenever MerkleProof::compile returns a program for a proof and a
\* list of pairs, the program run on the same pairs returns what
\* MerkleProof::compute_root returns for that proof and those pairs.
C19_CompiledAgreesWithStructured ==
    call.op = "compiled_compute_root" => call.res = call.structured

\* the nodes of tree_buf the walk has yet to put back at the head of their
\* leaves_path entry (lines 197-206 and 106-115)
ToLift(s) ==
    Cardinality({e \in s.tree_buf :
                    /\ s.leaves_path[e.idx + 1] # <<>>
                    /\ Head(s.leaves_path[e.idx + 1]) # e.h})

\* what a call in progress has left to do: nothing once it has returned,
\* else two for every tree_buf node and proof entry and one for every node
\* yet to be put back
WalkMeasure(s) ==
    IF s.done THEN 0
    ELSE 1 + 2 * (Cardinality(s.tree_buf) + Len(s.proof)) + ToLift(s)

\* C20: the loop of MerkleProof::compute_root and of MerkleProof::compile
\* ends after finitely many iterations: every iteration returns, or removes
\* an entry of tree_buf or of the proof queue, or puts the popped node back
\* at the height its next visit makes progress from, so that what is left
\* to do, a natural number, gets smaller with every iteration.
C20_WalkTerminates ==
    (Walking /\ call.stepped) => WalkMeasure(call.s) < WalkMeasure(call.prev)

\* a call that has returned a root after putting a node back, in a release
\* build, the node put back below its height
C20_Witness ==
    /\ Walking
    /\ call.s.done
    /\ call.reinserted
    /\ call.s.res.kind = "Ok"
    /\ ~call.dbg
    /\ \E i \in 1..Len(call.leaves_path) : Len(call.leaves_path[i]) > 1

\* ------------------------------------- the claims on the stack machine
\* the machine is about to read the opcode op
AtOp(s, op) ==
    /\ ~s.done
    /\ s.program_index < Len(call.code)
    /\ call.code[s.program_index + 1] = op

\* the bytes that follow the opcode the machine is about to read
OperandBytes(s) == Len(call.code) - (s.program_index + 1)

\* C12: in CompiledMerkleProof::compute_root, a P opcode on a non-empty
\* stack followed by fewer than 40 bytes and an H opcode on a stack of two or
\* more entries followed by fewer than 8 bytes end the call with
\* Err(CorruptedProof).
C12_TruncatedOperands ==
    (/\ call.op = "vm"
     /\ call.stepped
     /\ \/ AtOp(call.prev, OP_P) /\ call.prev.stack # <<>>
           /\ OperandBytes(call.prev) < HEIGHT_BYTES + DIGEST_LEN
        \/ AtOp(call.prev, OP_H) /\ Len(call.prev.stack) >= 2
           /\ OperandBytes(call.prev) < HEIGHT_BYTES)
    => call.s.res = Err("CorruptedProof")

\* the height operand of the H or P the machine is about to execute
OperandHeight(s) ==
    from_be_bytes(SubSeq(call.code, s.program_index + 2,
                         s.program_index + 1 + HEIGHT_BYTES))

\* a and b agree on every key bit above h and one of them has bit h set
SiblingsAt(a, b, h) ==
    /\ copy_bits(a.key, h + 1, BYTE_SIZE * N) = copy_bits(b.key, h + 1, BYTE_SIZE * N)
    /\ get_bit(a.key, h) # get_bit(b.key, h)

\* the stack after a successful H at height h on a (below) and b (on top):
\* the parent key with bits [0, h] cleared and the merge with the operand
\* whose bit h is 0 on the left
MergedStack(stack, a, b, h) ==
    Push(Drop(stack, 2), copy_bits(a.key, h + 1, BYTE_SIZE * N),
         IF get_bit(a.key, h) THEN merge(b.value, a.value)
         ELSE merge(a.value, b.value))

\* C13: an H opcode with its whole operand, at a height h inside the key, on
\* b (popped first) and a (popped second) succeeds exactly when a and b agree
\* on every key bit above h and exactly one of them has bit h set; it then
\* pushes the parent key with bits [0, h] cleared and the merge with the
\* operand whose bit h is 0 on the left; otherwise the call returns
\* Err(NonSiblings).
C13_SiblingRule ==
    (/\ call.op = "vm"
     /\ call.stepped
     /\ AtOp(call.prev, OP_H)
     /\ Len(call.prev.stack) >= 2
     /\ OperandBytes(call.prev) >= HEIGHT_BYTES
     /\ OperandHeight(call.prev) < BYTE_SIZE * N)
    => IF SiblingsAt(Top(call.prev.stack, 1), Top(call.prev.stack, 0),
                     OperandHeight(call.prev))
       THEN /\ ~call.s.done
            /\ call.s.stack = MergedStack(call.prev.stack, Top(call.prev.stack, 1),
                                          Top(call.prev.stack, 0),
                                          OperandHeight(call.prev))
       ELSE call.s.res = Err("NonSiblings")

\* C14: CompiledMerkleProof::compute_root returns Err(CorruptedStack) when P
\* executes on an empty stack, when H executes on fewer than two entries,
\* when L executes with no supplied leaf left and when the program ends with
\* a stack of another depth than 1, the empty program included; it returns
\* Ok(d) only at the end of the program with exactly one entry on the stack,
\* d being that entry's digest.
C14_StackDiscipline ==
    (call.op = "vm" /\ call.stepped) =>
        /\ (AtOp(call.prev, OP_P) /\ call.prev.stack = <<>>)
                => call.s.res = Err("CorruptedStack")
        /\ (AtOp(call.prev, OP_H) /\ Len(call.prev.stack) < 2)
                => call.s.res = Err("CorruptedStack")
        /\ (AtOp(call.prev, OP_L) /\ call.prev.leave_index >= Len(call.leaves))
                => call.s.res = Err("CorruptedStack")
        /\ (~call.prev.done /\ call.prev.program_index >= Len(call.code)
                /\ Len(call.prev.stack) # 1)
                => call.s.res = Err("CorruptedStack")
        /\ call.s.res.kind = "Ok" /\ call.s.done
                => /\ call.prev.program_index >= Len(call.code)
                   /\ Len(call.prev.stack) = 1
                   /\ call.s.res.val = call.prev.stack[1].value

\* a program of two leaves and a merge has returned its root
C14_Witness ==
    /\ call.op = "vm"
    /\ call.s.done
    /\ call.s.res.kind = "Ok"
    /\ Len(call.leaves) = 2
    /\ call.prev.leave_index = 2

\* C16: whenever the byte at an opcode position the machine reaches is none
\* of 0x4C, 0x50 and 0x48, CompiledMerkleProof::compute_root returns
\* Err(InvalidCode(b)) with that byte b, wherever the position lies.
C16_UnknownOpcode ==
    (/\ call.op = "vm"
     /\ call.stepped
     /\ ~call.prev.done
     /\ call.prev.program_index < Len(call.code)
     /\ call.code[call.prev.program_index + 1] \notin {OP_L, OP_P, OP_H})
    => call.s.res = [Err("InvalidCode") EXCEPT
                        !.actual = call.code[call.prev.program_index + 1]]

\* the byte 0xFF met as an opcode after a P with its operands
C16_Witness ==
    /\ call.op = "vm"
    /\ call.s.res.err = "InvalidCode"
    /\ call.s.res.actual = 255
    /\ call.prev.program_index > HEIGHT_BYTES + DIGEST_LEN

\* ------------------------------------------------ the claims on the keys
\* bit i of a key: bit i % 8 of the byte i / 8 places before the last
BitOf(key, i) == (key[N - (i \div BYTE_SIZE)] \div (2 ^ (i % BYTE_SIZE))) % 2

\* C17: for every key and every range start..end with start <= end,
\* copy_bits gives a key whose bit i is the key's bit i for
\* start <= i < min(end, 8N) and 0 for every other i; a start of 8N or more
\* gives the zero key and an end past 8N counts as 8N.
C17_CopyBitsExact ==
    call.op = "copy_bits" =>
        /\ DOMAIN call.res = 1..N
        /\ \A j \in 1..N : call.res[j] \in 0..255
        /\ \A i \in 0..(BYTE_SIZE * N - 1) :
              BitOf(call.res, i) =
                  IF call.start <= i /\ i < call.end THEN BitOf(call.key, i) ELSE 0
        /\ call.start >= BYTE_SIZE * N => call.res = TreeKey_zero

\* a range inside one byte, away from the byte's boundaries, of a key with
\* every bit set
C17_Witness ==
    /\ call.op = "copy_bits"
    /\ call.start % BYTE_SIZE # 0
    /\ call.end % BYTE_SIZE # 0
    /\ call.start < call.end
    /\ call.start \div BYTE_SIZE = call.end \div BYTE_SIZE
    /\ call.key = [j \in 1..N |-> 255]
    /\ call.res # TreeKey_zero

\* ------------------------------------- the claims on the work map
\* bits [0, h) of the key are zero
LowBitsZero(key, h) ==
    \A i \in 0..(Min(h, BYTE_SIZE * N) - 1) : BitOf(key, i) = 0

\* lines 186-196 and 92-102: the sibling of the node the next iteration
\* pops is somewhere in what tree_buf keeps after the pop
SiblingPresent(s) ==
    /\ ~s.done
    /\ s.tree_buf # {}
    /\ \E e \in {buf_first(s.tree_buf)} :
        /\ ~get_bit_panics(e.h)
        /\ \E f \in s.tree_buf \ {e} :
              f.h = e.h /\ f.key = sibling_key_of(e.key, e.h)

\* lines 191 and 97: the sibling is the first key of what tree_buf keeps
SiblingFirst(s) ==
    \E e \in {buf_first(s.tree_buf)} :
    \E next \in {buf_first(s.tree_buf \ {e})} :
        next.h = e.h /\ next.key = sibling_key_of(e.key, e.h)

\* C21: in every iteration of MerkleProof::compute_root and of compile,
\* every tree_buf entry keyed (h, k) has bits [0, h) of k equal to zero, and
\* whenever the sibling of the popped minimum node at its height is in
\* tree_buf at all, it is the first remaining key, the one the walk tests.
C21_WorkMapInvariant ==
    (Walking /\ ~call.s.done) =>
        /\ \A e \in call.s.tree_buf : LowBitsZero(e.key, e.h)
        /\ SiblingPresent(call.s) => SiblingFirst(call.s)

\* two nodes put back at the highest bit meet there as siblings, after an
\* iteration of the loop
C21_Witness ==
    /\ Walking
    /\ call.stepped
    /\ SiblingPresent(call.s)
    /\ buf_first(call.s.tree_buf).h = BYTE_SIZE * N - 1

\* C22: a run of CompiledMerkleProof::compute_root that returns Ok has
\* executed as many L opcodes as pairs were supplied, so that no supplied
\* pair is left out of the root it returns.
C22_EveryLeafConsumed ==
    (/\ call.op = "vm"
     /\ call.stepped
     /\ call.s.done
     /\ call.s.res.kind = "Ok")
    => call.prev.leave_index = Len(call.leaves)

====
